---- MODULE Spec2Model ----
(***************************************************************************)
(* A model of the object_store S3 client core of coralogix/arrow-rs:       *)
(*   - the part ledger `Parts` (client/parts.rs): put / finish / sort,     *)
(*     shared by concurrent upload tasks under a parking_lot Mutex;        *)
(*   - S3Client::bulk_delete_request (aws/client.rs) and its               *)
(*     reconciliation of the DeleteObjects response with the input paths;  *)
(*   - S3Client::copy_request and S3Client::complete_multipart             *)
(*     (aws/client.rs), with the numbering of client/s3.rs.                *)
(***************************************************************************)
EXTENDS Integers, Sequences, FiniteSets, Bags, TLC

(***************************************************************************)
(* Bounds of the model.                                                    *)
(***************************************************************************)
\* number of concurrent upload tasks sharing one ledger (Spec)
NTasks == 3
\* part indices submitted by the upload tasks are 1..MaxIdx (Spec)
MaxIdx == 2
\* longest ledger, and largest part index, of the sort specification (SpecSort)
MaxLen == 4
\* longest list of paths given to bulk_delete_request (SpecDelete)
MaxPaths == 3
\* most entries in a parsed DeleteObjects response (SpecDelete)
MaxResp == 3
\* longest part list given to complete_multipart (SpecComplete)
MaxParts == 3

VARIABLES
    parts,      \* Parts.0: the Vec<(usize, PartId)> behind the mutex
    lock,       \* the mutex: NoOwner, a task, or Finisher
    pc,         \* pc[t]: where upload task t is inside Parts::put
    arg,        \* arg[t]: the (part_idx, id) task t is putting
    slot,       \* slot[t]: the Vec length task t read in Vec::push
    fpc,        \* where the caller of Parts::finish is
    expected,   \* the argument of the finish call in progress
    result,     \* what the last finish call returned
    recorded,   \* history: the entries of the put calls that have returned
                \* since the ledger was last drained, in order of return
    seen,       \* history: `recorded` when the finish call in progress
                \* examined the ledger
    consumed,   \* history: an earlier finish call returned Ok with a part list
    refused,    \* history: a finish call failed since the ledger was last drained
                \* that was not empty
    dpc,        \* where the caller of bulk_delete_request is
    paths,      \* the argument of bulk_delete_request
    calls,      \* the calls made on the collaborators, in order
    response,   \* the parsed BatchDeleteResponse.content
    outcome,    \* what bulk_delete_request returned
    mpc,        \* where the caller of complete_multipart is
    mparts,     \* the `parts` argument of complete_multipart
    mbody,      \* the serialized CompleteMultipart request body
    moutcome,   \* what complete_multipart returned
    config,     \* S3Config.copy_if_not_exists of the client
    cpc,        \* where the caller of copy_request is
    cargs,      \* the arguments of copy_request
    crequest,   \* the request copy_request has built
    cresponse,  \* what send_retry gave copy_request
    coutcome    \* what copy_request returned

ledgerVars == <<parts, lock, pc, arg, slot, fpc, expected, result, recorded, seen, consumed, refused>>
deleteVars == <<dpc, paths, calls, response, outcome>>
multipartVars == <<mpc, mparts, mbody, moutcome>>
copyVars == <<config, cpc, cargs, crequest, cresponse, coutcome>>
vars == <<ledgerVars, deleteVars, multipartVars, copyVars>>

(***************************************************************************)
(* Data: PartId and the ledger's entries.                                  *)
(***************************************************************************)
Tasks == 1..NTasks
NoOwner == 0
Finisher == -1

\* the part sizes of tests::test_sort
Sizes == {50, 100}
ContentIds == {"x", "y"}

\* crate::multipart::PartId { content_id, size }
PartId(c, s) == [content_id |-> c, size |-> s]

\* one element of the Vec: (part_idx, PartId)
Entry(i, id) == [idx |-> i, id |-> id]

NoEntry == [idx |-> 0, id |-> PartId("", 0)]
NoResult == [kind |-> "none"]

\* the entries an upload task may put
TaskEntries == {Entry(i, PartId(c, s)) : i \in 1..MaxIdx, c \in ContentIds, s \in Sizes}

(***************************************************************************)
(* fn sort: sort_unstable_by with the comparator of parts.rs:51-54.        *)
(***************************************************************************)
\* Ord::cmp on usize
Ordering(x, y) == IF x < y THEN "Less" ELSE IF x = y THEN "Equal" ELSE "Greater"

\* a comparator that orders by part_idx alone
CompareByIdx(a, b) == Ordering(a.idx, b.idx)

\* a comparator that orders sizes ascending
CompareAscSize(a, b) ==
    IF a.id.size = b.id.size THEN Ordering(a.idx, b.idx)
    ELSE Ordering(a.id.size, b.id.size)

\* a comparator that never looks at part_idx
CompareSizeOnly(a, b) == Ordering(b.id.size, a.id.size)

\* the closure given to sort_unstable_by
Compare(a, b) ==
    IF a.id.size = b.id.size THEN Ordering(a.idx, b.idx)
    ELSE Ordering(b.id.size, a.id.size)

\* The arrangements of the elements of seq at positions S that are ordered by
\* Compare.  sort_unstable_by may leave elements that compare Equal in any
\* order, so every such arrangement is a possible result.
RECURSIVE SortFrom(_, _)
SortFrom(seq, S) ==
    IF S = {} THEN {<<>>}
    ELSE UNION { { <<seq[i]>> \o r : r \in SortFrom(seq, S \ {i}) } :
                 i \in { k \in S : \A j \in S : Compare(seq[j], seq[k]) # "Less" } }

\* fn sort(parts): the possible contents of the slice afterwards
sort(seq) == SortFrom(seq, DOMAIN seq)

\* (_, v) -> v over the elements in order
RECURSIVE Ids(_)
Ids(seq) == IF seq = <<>> THEN <<>> ELSE <<Head(seq).id>> \o Ids(Tail(seq))

\* a collection keyed by part_idx: of the entries with one part_idx only the
\* first is kept
RECURSIVE FirstPerIdx(_, _)
FirstPerIdx(seq, have) ==
    IF seq = <<>> THEN <<>>
    ELSE IF Head(seq).idx \in have THEN FirstPerIdx(Tail(seq), have)
    ELSE <<Head(seq).id>> \o FirstPerIdx(Tail(seq), have \cup {Head(seq).idx})

DrainIdsOncePerIdx(seq) == FirstPerIdx(seq, {})

\* parts.drain(..).map(|(_, v)| v).collect(): the collected Vec<PartId>
DrainIds(seq) == Ids(seq)

\* an iteration that leaves the elements in the vector
LeftInPlace(seq) == seq

\* parts.drain(..): what is left in the vector
AfterDrain(seq) == <<>>

(***************************************************************************)
(* The mutex.                                                              *)
(***************************************************************************)
\* a mutex that excludes nobody
LockNeverHeld == TRUE

\* a mutex that only another put keeps a caller out of
LockNotHeldByPut == lock \notin Tasks

\* Mutex::lock returns only when nobody holds the mutex
LockFree == lock = NoOwner

(***************************************************************************)
(* Parts::put(part_idx, id): self.0.lock().push((part_idx, id))            *)
(***************************************************************************)
\* the task calls put and obtains the guard (tasks that have not called put yet
\* are interchangeable: the lowest-numbered one goes first)
PutLock(t) ==
    /\ pc[t] = "idle"
    /\ \A u \in Tasks : u < t => pc[u] # "idle"
    /\ LockFree
    /\ \E e \in TaskEntries : arg' = [arg EXCEPT ![t] = e]
    /\ lock' = t
    /\ pc' = [pc EXCEPT ![t] = "locked"]
    /\ UNCHANGED <<parts, slot, fpc, expected, result, recorded, seen, consumed, refused>>
    /\ UNCHANGED deleteVars
    /\ UNCHANGED <<multipartVars, copyVars>>

\* Vec::push reads the length of the vector ...
PutPush(t) ==
    /\ pc[t] = "locked"
    /\ slot' = [slot EXCEPT ![t] = Len(parts) + 1]
    /\ pc' = [pc EXCEPT ![t] = "writing"]
    /\ UNCHANGED <<parts, lock, arg, fpc, expected, result, recorded, seen, consumed, refused>>
    /\ UNCHANGED deleteVars
    /\ UNCHANGED <<multipartVars, copyVars>>

\* ... writes the element at that position and sets the length; the guard is
\* dropped at the end of the statement and put returns
PutStore(t) ==
    /\ pc[t] = "writing"
    /\ parts' = IF slot[t] <= Len(parts)
                THEN SubSeq(parts, 1, slot[t] - 1) \o <<arg[t]>>
                ELSE Append(parts, arg[t])
    /\ lock' = NoOwner
    /\ recorded' = Append(recorded, arg[t])
    /\ pc' = [pc EXCEPT ![t] = "done"]
    /\ arg' = [arg EXCEPT ![t] = NoEntry]
    /\ slot' = [slot EXCEPT ![t] = 0]
    /\ UNCHANGED <<fpc, expected, result, seen, consumed, refused>>
    /\ UNCHANGED deleteVars
    /\ UNCHANGED <<multipartVars, copyVars>>

(***************************************************************************)
(* Parts::finish(expected)                                                 *)
(***************************************************************************)
\* a length check that accepts surplus entries
AtLeastExpected(n, e) == n >= e

\* parts.len() != expected is false
LenIsExpected(n, e) == n = e

\* the values of `expected` tried: one fewer, exactly, one more than recorded
ExpectedChoices == {n \in {Len(recorded) - 1, Len(recorded), Len(recorded) + 1} : n >= 0}

\* let mut parts = self.0.lock();
FinishLock ==
    /\ fpc = "idle"
    /\ LockFree
    /\ \E e \in ExpectedChoices : expected' = e
    /\ lock' = Finisher
    /\ fpc' = "locked"
    /\ UNCHANGED <<parts, pc, arg, slot, result, recorded, seen, consumed, refused>>
    /\ UNCHANGED deleteVars
    /\ UNCHANGED <<multipartVars, copyVars>>

\* a refusal that empties the ledger
ClearedOnFailure(seq) == <<>>

\* what the early return of finish leaves in the Vec: the guard is dropped
\* before sort or drain has touched it
AfterMissingPart(seq) == seq

\* the body of finish under the guard: the length check, sort, drain; the guard
\* is dropped on return
FinishBody ==
    /\ fpc = "locked"
    /\ seen' = recorded
    /\ IF ~LenIsExpected(Len(parts), expected)
       THEN /\ result' = [kind |-> "Err", store |-> "Parts", source |-> "Missing part"]
            /\ parts' = AfterMissingPart(parts)
            /\ recorded' = recorded
            /\ refused' = TRUE
       ELSE /\ \E sorted \in sort(parts) :
                  result' = [kind |-> "Ok", ids |-> DrainIds(sorted)]
            /\ parts' = AfterDrain(parts)
            /\ recorded' = <<>>
            /\ refused' = refused
    /\ lock' = NoOwner
    /\ fpc' = "returned"
    /\ UNCHANGED <<pc, arg, slot, expected, consumed>>
    /\ UNCHANGED deleteVars
    /\ UNCHANGED <<multipartVars, copyVars>>

\* the caller takes the returned value; the ledger may be used again
FinishReturn ==
    /\ fpc = "returned"
    /\ fpc' = "idle"
    /\ result' = NoResult
    /\ expected' = 0
    /\ seen' = <<>>
    /\ consumed' = (consumed \/ (result.kind = "Ok" /\ result.ids # <<>>))
    /\ refused' = (refused /\ result.kind # "Ok")
    /\ UNCHANGED <<parts, lock, pc, arg, slot, recorded>>
    /\ UNCHANGED deleteVars
    /\ UNCHANGED <<multipartVars, copyVars>>

(***************************************************************************)
(* Paths and keys.  A key is a string, modelled as a sequence of            *)
(* characters; a Path is a key in normal form.                              *)
(***************************************************************************)
DELIMITER == "/"

\* the Paths a caller deletes
InputPaths == { <<"a">>, <<"b">>, <<"c", "/", "d">> }

\* the keys a DeleteObjects response may carry: the input paths, a key with a
\* leading delimiter, and a key with an empty segment
RawKeys == InputPaths \cup { <<"/", "a">>, <<"a", "/", "/", "b">> }

\* Path::parse(key): strips one leading and one trailing delimiter and rejects
\* a key with an empty segment
PathParse(key) ==
    LET s1 == IF key # <<>> /\ Head(key) = DELIMITER THEN Tail(key) ELSE key
        s2 == IF s1 # <<>> /\ s1[Len(s1)] = DELIMITER THEN SubSeq(s1, 1, Len(s1) - 1) ELSE s1
        emptySegment ==
            \/ s2 = <<>>
            \/ s2[1] = DELIMITER
            \/ s2[Len(s2)] = DELIMITER
            \/ \E i \in 1..(Len(s2) - 1) : s2[i] = DELIMITER /\ s2[i + 1] = DELIMITER
    IN  IF s1 = <<>> THEN [ok |-> TRUE, path |-> <<>>]
        ELSE IF emptySegment THEN [ok |-> FALSE, path |-> <<>>]
        ELSE [ok |-> TRUE, path |-> s2]

(***************************************************************************)
(* The DeleteObjects response and the errors of aws/client.rs.              *)
(***************************************************************************)
ErrorCodes ==
    { [code |-> "AccessDenied", message |-> "Access Denied"],
      [code |-> "InternalError", message |-> "We encountered an internal error" ] }

\* enum DeleteObjectResult { Deleted(DeletedObject), Error(DeleteError) }
DeletedObject(k) == [kind |-> "Deleted", key |-> k]
DeleteError(k, c, m) == [kind |-> "Error", key |-> k, code |-> c, message |-> m]

ResponseEntries ==
    {DeletedObject(k) : k \in InputPaths}
        \cup {DeleteError(k, e.code, e.message) : k \in RawKeys, e \in ErrorCodes}

NoResponse == <<[kind |-> "none"]>>
NoOutcome == [kind |-> "none"]

\* a conversion that exchanges code and message
FromDeleteErrorSwapped(err) ==
    [kind |-> "DeleteFailed", path |-> err.key, code |-> err.message, message |-> err.code]

\* impl From<DeleteError> for Error
FromDeleteError(err) ==
    [kind |-> "DeleteFailed", path |-> err.key, code |-> err.code, message |-> err.message]

\* impl From<Error> for crate::Error, for the variants without a path
\* the variants of Error that carry the retry error and a path
PathedRequests == {"GetRequest", "DeleteRequest", "CopyRequest", "PutRequest"}

\* retry::Error::error(self, store, path) of client/retry.rs: the terminal
\* error of the retry collaborator as a crate::Error of that store and path
RetryErrorError(source, store, path) ==
    [kind |-> "Request", store |-> store, path |-> path, source |-> source]

\* impl From<Error> for crate::Error
IntoCrateError(err) ==
    IF err.kind \in PathedRequests
    THEN RetryErrorError(err.source, "S3", err.path)
    ELSE [kind |-> "Generic", store |-> "S3", source |-> err]

OkPath(p) == [kind |-> "Ok", path |-> p]
ErrItem(e) == [kind |-> "Err", error |-> e]

\* a search that answers with the position counted from the end
FindPositionFromEnd(ps, path) ==
    IF \E i \in DOMAIN ps : ps[i] = path
    THEN Len(ps) + 1 - (CHOOSE i \in DOMAIN ps : ps[i] = path /\ \A j \in 1..(i - 1) : ps[j] # path)
    ELSE 0

\* paths.iter().find_position(|&p| p == &path): the first position holding the
\* path, 0 for None
FindPosition(ps, path) ==
    IF \E i \in DOMAIN ps : ps[i] = path
    THEN CHOOSE i \in DOMAIN ps : ps[i] = path /\ \A j \in 1..(i - 1) : ps[j] # path
    ELSE 0

\* paths.iter().cloned().map(Ok).collect()
SeedResults(ps) == [i \in DOMAIN ps |-> OkPath(ps[i])]

\* the loop over response.content: what bulk_delete_request returns
RECURSIVE FillErrors(_, _, _)
FillErrors(ps, content, results) ==
    IF content = <<>> THEN [kind |-> "Ok", results |-> results]
    ELSE LET c == Head(content) IN
        IF c.kind # "Error" THEN FillErrors(ps, Tail(content), results)
        ELSE LET parsed == PathParse(c.key) IN
            IF ~parsed.ok
            THEN [kind |-> "Err",
                  error |-> IntoCrateError([kind |-> "InvalidDeleteObjectsResponse"])]
            ELSE LET i == FindPosition(ps, parsed.path) IN
                \* .unwrap() on None panics
                IF i = 0 THEN [kind |-> "Panic"]
                ELSE FillErrors(ps, Tail(content),
                        [results EXCEPT ![i] = ErrItem(IntoCrateError(FromDeleteError(c)))])

(***************************************************************************)
(* S3Client::bulk_delete_request(paths)                                    *)
(***************************************************************************)
RECURSIVE DistinctSeqs(_, _)
DistinctSeqs(S, n) ==
    IF n = 0 THEN {<<>>}
    ELSE LET shorter == DistinctSeqs(S, n - 1) IN
        shorter \cup {Append(q, x) : q \in {r \in shorter : Len(r) = n - 1}, x \in S}

\* the lists of distinct paths a caller passes
PathLists == {q \in DistinctSeqs(InputPaths, MaxPaths) : \A i, j \in DOMAIN q : i # j => q[i] # q[j]}

\* the contents of the responses that parse as a BatchDeleteResponse
ParsedResponses == UNION {[1..k -> ResponseEntries] : k \in 0..MaxResp}

\* a list that is never taken to be empty
NeverEmpty(ps) == FALSE

\* paths.is_empty()
IsEmpty(ps) == ps = <<>>

\* the call; an empty list returns at once
BulkDeleteCall ==
    /\ dpc = "idle"
    /\ \E ps \in PathLists :
        /\ paths' = ps
        /\ IF IsEmpty(ps)
           THEN outcome' = [kind |-> "Ok", results |-> <<>>] /\ dpc' = "done"
           ELSE outcome' = outcome /\ dpc' = "credential"
    /\ UNCHANGED <<calls, response>>
    /\ UNCHANGED ledgerVars
    /\ UNCHANGED <<multipartVars, copyVars>>

\* self.get_credential().await?
GetCredential ==
    /\ dpc = "credential"
    /\ calls' = Append(calls, "get_credential")
    /\ \/ dpc' = "send" /\ outcome' = outcome
       \/ dpc' = "done" /\ outcome' = [kind |-> "Err", error |-> [kind |-> "Credential"]]
    /\ UNCHANGED <<paths, response>>
    /\ UNCHANGED ledgerVars
    /\ UNCHANGED <<multipartVars, copyVars>>

\* the request is built (one <Object><Key> per path, the checksum header),
\* signed and sent: .with_aws_sigv4(..).send_retry(..).await
SendRetry ==
    /\ dpc = "send"
    /\ calls' = calls \o <<"digest", "sign", "send">>
    /\ \/ dpc' = "body" /\ outcome' = outcome
       \/ /\ dpc' = "done"
          /\ outcome' = [kind |-> "Err",
                         error |-> IntoCrateError([kind |-> "DeleteObjectsRequest"])]
    /\ UNCHANGED <<paths, response>>
    /\ UNCHANGED ledgerVars
    /\ UNCHANGED <<multipartVars, copyVars>>

\* .bytes().await
ReadBody ==
    /\ dpc = "body"
    /\ \/ dpc' = "parse" /\ outcome' = outcome
       \/ /\ dpc' = "done"
          /\ outcome' = [kind |-> "Err",
                         error |-> IntoCrateError([kind |-> "DeleteObjectsResponse"])]
    /\ UNCHANGED <<paths, calls, response>>
    /\ UNCHANGED ledgerVars
    /\ UNCHANGED <<multipartVars, copyVars>>

\* quick_xml::de::from_reader, then the results are seeded and the errors
\* filled in
ParseAndReconcile ==
    /\ dpc = "parse"
    /\ \/ /\ outcome' = [kind |-> "Err",
                         error |-> IntoCrateError([kind |-> "InvalidDeleteObjectsResponse"])]
          /\ response' = response
       \/ \E content \in ParsedResponses :
            /\ response' = content
            /\ outcome' = FillErrors(paths, content, SeedResults(paths))
    /\ dpc' = "done"
    /\ UNCHANGED <<paths, calls>>
    /\ UNCHANGED ledgerVars
    /\ UNCHANGED <<multipartVars, copyVars>>

(***************************************************************************)
(* S3Client::copy_request(from, to, overwrite)                             *)
(***************************************************************************)
\* config.copy_if_not_exists: None
NoStrategy == [kind |-> "None"]

\* config.copy_if_not_exists: Some(S3CopyIfNotExists::Header(k, v))
HeaderStrategy == [kind |-> "Header", key |-> "cf-copy-destination-if-none-match", value |-> "*"]

Strategies == {NoStrategy, HeaderStrategy}

NoCopy == [kind |-> "none"]
NoRequest == [kind |-> "none"]
NoReply == [kind |-> "none"]

\* StatusCode::PRECONDITION_FAILED
PRECONDITION_FAILED == 412

\* what a terminal retry::Error reports from status(): the status of the last
\* response, or None when the transport failed without one
NoStatus == 0
Statuses == {NoStatus, 404, 409, PRECONDITION_FAILED, 500}

\* the terminal error of send_retry
RetryError(st) == [kind |-> "retry::Error", status |-> st]

\* let source = format!("{}/{}", self.config.bucket, encode_path(from))
CopySource(from) == <<"bucket", DELIMITER>> \o from

\* the already-exists error carrying the source path
MapCopyErrorSourcePath(source, from, to) ==
    IF source.status = PRECONDITION_FAILED
    THEN [kind |-> "AlreadyExists", source |-> source, path |-> from]
    ELSE IntoCrateError([kind |-> "CopyRequest", source |-> source, path |-> from])

\* .map_err(|source| match source.status() {
\*     Some(StatusCode::PRECONDITION_FAILED) => crate::Error::AlreadyExists { source, path: to },
\*     _ => Error::CopyRequest { source, path: from }.into() })
MapCopyError(source, from, to) ==
    IF source.status = PRECONDITION_FAILED
    THEN [kind |-> "AlreadyExists", source |-> source, path |-> to]
    ELSE IntoCrateError([kind |-> "CopyRequest", source |-> source, path |-> from])

\* the call copy_request(from, to, overwrite)
CopyCall ==
    /\ cpc = "idle"
    /\ \E from \in InputPaths, to \in InputPaths, overwrite \in BOOLEAN :
        cargs' = [from |-> from, to |-> to, overwrite |-> overwrite]
    /\ cpc' = "credential"
    /\ UNCHANGED <<config, crequest, cresponse, coutcome>>
    /\ UNCHANGED deleteVars
    /\ UNCHANGED <<ledgerVars, multipartVars>>

\* let credential = self.get_credential().await?
CopyCredential ==
    /\ cpc = "credential"
    /\ calls' = Append(calls, "get_credential")
    /\ \/ cpc' = "build" /\ coutcome' = coutcome
       \/ cpc' = "done" /\ coutcome' = [kind |-> "Err", error |-> [kind |-> "Credential"]]
    /\ UNCHANGED <<config, cargs, crequest, cresponse>>
    /\ UNCHANGED <<dpc, paths, response, outcome>>
    /\ UNCHANGED <<ledgerVars, multipartVars>>

\* the PUT on `to` with the x-amz-copy-source header; without overwrite the
\* header of the configured strategy is added, or the call fails
CopyBuild ==
    /\ cpc = "build"
    /\ LET builder == [method |-> "PUT", url |-> cargs.to,
                       headers |-> <<<<"x-amz-copy-source", CopySource(cargs.from)>>>>]
       IN  IF ~cargs.overwrite
           THEN IF config.kind = "Header"
                THEN /\ crequest' = [builder EXCEPT !.headers =
                                        Append(@, <<config.key, config.value>>)]
                     /\ cpc' = "send"
                     /\ coutcome' = coutcome
                ELSE /\ crequest' = crequest
                     /\ cpc' = "done"
                     /\ coutcome' = [kind |-> "Err",
                                     error |-> [kind |-> "NotSupported",
                                                source |-> "S3 does not support copy-if-not-exists"]]
           ELSE /\ crequest' = builder
                /\ cpc' = "send"
                /\ coutcome' = coutcome
    /\ UNCHANGED <<config, cargs, cresponse>>
    /\ UNCHANGED deleteVars
    /\ UNCHANGED <<ledgerVars, multipartVars>>

\* builder.with_aws_sigv4(..).send_retry(..).await.map_err(..)?; Ok(())
CopySend ==
    /\ cpc = "send"
    /\ calls' = calls \o <<"sign", "send">>
    /\ \/ /\ cresponse' = [kind |-> "Ok"]
          /\ coutcome' = [kind |-> "Ok"]
       \/ \E st \in Statuses :
          /\ cresponse' = [kind |-> "Err", error |-> RetryError(st)]
          /\ coutcome' = [kind |-> "Err",
                          error |-> MapCopyError(RetryError(st), cargs.from, cargs.to)]
    /\ cpc' = "done"
    /\ UNCHANGED <<config, cargs, crequest>>
    /\ UNCHANGED <<dpc, paths, response, outcome>>
    /\ UNCHANGED <<ledgerVars, multipartVars>>

(***************************************************************************)
(* S3Client::complete_multipart(location, upload_id, parts)                *)
(***************************************************************************)
\* the PartIds of uploaded parts; the content_id (the ETag of the upload) is
\* written like an index, as in tests::test_multipart_serialization
CompletedPartIds == {PartId(c, s) : c \in {"1", "2", "3"}, s \in Sizes}

\* the part lists a caller passes
PartLists == UNION {[1..k -> CompletedPartIds] : k \in 0..MaxParts}

NoBody == [element |-> "none"]

\* struct MultipartPart { e_tag, part_number }
MultipartPart(tag, n) == [e_tag |-> tag, part_number |-> n]

\* a numbering that starts at 0
MultipartPartsZeroBased(ps) == [i \in DOMAIN ps |-> MultipartPart(ps[i].content_id, i - 1)]

\* parts.into_iter().enumerate().map(|(part_idx, part)| MultipartPart {
\*     e_tag: part.content_id, part_number: part_idx + 1 }).collect()
\* (the element at position i of the sequence has part_idx i - 1)
MultipartParts(ps) == [i \in DOMAIN ps |-> MultipartPart(ps[i].content_id, (i - 1) + 1)]

\* impl From<Vec<PartId>> for CompleteMultipartUpload (client/s3.rs)
FromPartIds(ps) == [part |-> [i \in DOMAIN ps |-> MultipartPart(ps[i].content_id, (i - 1) + 1)]]

\* impl Serialize for MultipartPart: <Part><ETag>"tag"</ETag><PartNumber>n</PartNumber></Part>
SerializePart(p) ==
    [element |-> "Part", ETag |-> <<"\"", p.e_tag, "\"">>, PartNumber |-> p.part_number]

\* quick_xml::se::to_string(&CompleteMultipart { part }): the root element and
\* one Part child per element, in order
SerializeCompleteMultipart(request) ==
    [element |-> "CompleteMultipartUpload",
     children |-> [i \in DOMAIN request.part |-> SerializePart(request.part[i])]]

\* the call: the parts are numbered and the body is serialized
CompleteCall ==
    /\ mpc = "idle"
    /\ \E ps \in PartLists :
        /\ mparts' = ps
        /\ mbody' = SerializeCompleteMultipart([part |-> MultipartParts(ps)])
    /\ mpc' = "credential"
    /\ UNCHANGED <<moutcome, calls>>
    /\ UNCHANGED <<dpc, paths, response, outcome>>
    /\ UNCHANGED <<ledgerVars, copyVars>>

\* self.get_credential().await?
CompleteCredential ==
    /\ mpc = "credential"
    /\ calls' = Append(calls, "get_credential")
    /\ \/ mpc' = "send" /\ moutcome' = moutcome
       \/ mpc' = "done" /\ moutcome' = [kind |-> "Err", error |-> [kind |-> "Credential"]]
    /\ UNCHANGED <<mparts, mbody>>
    /\ UNCHANGED <<dpc, paths, response, outcome>>
    /\ UNCHANGED <<ledgerVars, copyVars>>

\* the POST with the body is signed and sent: .send_retry(..).await
CompleteSend ==
    /\ mpc = "send"
    /\ calls' = calls \o <<"sign", "send">>
    /\ \/ moutcome' = [kind |-> "Ok"]
       \/ moutcome' = [kind |-> "Err",
                       error |-> IntoCrateError([kind |-> "CompleteMultipartRequest"])]
    /\ mpc' = "done"
    /\ UNCHANGED <<mparts, mbody>>
    /\ UNCHANGED <<dpc, paths, response, outcome>>
    /\ UNCHANGED <<ledgerVars, copyVars>>

(***************************************************************************)
(* The ledger shared by NTasks upload tasks and the caller of finish.      *)
(***************************************************************************)
\* Parts::default(): an empty ledger, nobody inside put or finish
InitLedger ==
    /\ parts = <<>>
    /\ lock = NoOwner
    /\ pc = [t \in Tasks |-> "idle"]
    /\ arg = [t \in Tasks |-> NoEntry]
    /\ slot = [t \in Tasks |-> 0]
    /\ fpc = "idle"
    /\ expected = 0
    /\ result = NoResult
    /\ recorded = <<>>
    /\ seen = <<>>
    /\ consumed = FALSE
    /\ refused = FALSE

\* an S3Client on which bulk_delete_request has not been called
InitClient ==
    /\ dpc = "idle"
    /\ paths = <<>>
    /\ calls = <<>>
    /\ response = NoResponse
    /\ outcome = NoOutcome

\* no complete_multipart call has been made
InitMultipart ==
    /\ mpc = "idle"
    /\ mparts = <<>>
    /\ mbody = NoBody
    /\ moutcome = NoOutcome

\* no copy_request call has been made
InitCopyIdle ==
    /\ cpc = "idle"
    /\ cargs = NoCopy
    /\ crequest = NoRequest
    /\ cresponse = NoReply
    /\ coutcome = NoOutcome

Init == InitLedger /\ InitClient /\ InitMultipart /\ InitCopyIdle /\ config = NoStrategy

Next ==
    \/ \E t \in Tasks : PutLock(t)
    \/ \E t \in Tasks : PutPush(t)
    \/ \E t \in Tasks : PutStore(t)
    \/ FinishLock
    \/ FinishBody
    \/ FinishReturn

Spec == Init /\ [][Next]_vars

(***************************************************************************)
(* One call of bulk_delete_request on a client.                            *)
(***************************************************************************)
NextDelete ==
    \/ BulkDeleteCall
    \/ GetCredential
    \/ SendRetry
    \/ ReadBody
    \/ ParseAndReconcile

SpecDelete == Init /\ [][NextDelete]_vars

(***************************************************************************)
(* One call of complete_multipart on a client.                             *)
(***************************************************************************)
NextComplete ==
    \/ CompleteCall
    \/ CompleteCredential
    \/ CompleteSend

SpecComplete == Init /\ [][NextComplete]_vars

(***************************************************************************)
(* One call of copy_request on a client with either configuration.         *)
(***************************************************************************)
InitCopy ==
    /\ InitLedger
    /\ InitClient
    /\ InitMultipart
    /\ InitCopyIdle
    /\ config \in Strategies

NextCopy ==
    \/ CopyCall
    \/ CopyCredential
    \/ CopyBuild
    \/ CopySend

SpecCopy == InitCopy /\ [][NextCopy]_vars

(***************************************************************************)
(* Parts::finish and sort as functions of the ledger's contents: the       *)
(* ledger starts with any sequence of at most MaxLen entries, as left by   *)
(* put calls that have all returned, and finish is called on it.  As in    *)
(* tests::test_sort, the content_id of a part is its index as a string.    *)
(***************************************************************************)
SortEntries == {Entry(i, PartId(ToString(i), s)) : i \in 1..MaxLen, s \in Sizes}

SeqsUpTo(S, n) == UNION {[1..k -> S] : k \in 0..n}

InitSort ==
    /\ parts \in SeqsUpTo(SortEntries, MaxLen)
    /\ recorded = parts
    /\ lock = NoOwner
    /\ pc = [t \in Tasks |-> "done"]
    /\ arg = [t \in Tasks |-> NoEntry]
    /\ slot = [t \in Tasks |-> 0]
    /\ fpc = "idle"
    /\ expected = 0
    /\ result = NoResult
    /\ seen = <<>>
    /\ consumed = FALSE
    /\ refused = FALSE
    /\ InitClient
    /\ InitMultipart
    /\ InitCopyIdle
    /\ config = NoStrategy

NextSort ==
    \/ FinishLock
    \/ FinishBody
    \/ FinishReturn

SpecSort == InitSort /\ [][NextSort]_vars

(***************************************************************************)
(* Vocabulary of the properties.                                           *)
(***************************************************************************)
Range(seq) == {seq[i] : i \in DOMAIN seq}

\* the elements of a sequence with their multiplicities
SeqToBag(seq) == [x \in Range(seq) |-> Cardinality({i \in DOMAIN seq : seq[i] = x})]

\* every order in which the elements of seq can be arranged
Arrangements(seq) == {[i \in DOMAIN seq |-> seq[p[i]]] : p \in Permutations(DOMAIN seq)}

FinishReturned == fpc = "returned"
FinishSucceeded == fpc = "returned" /\ result.kind = "Ok"
MissingPart == [kind |-> "Err", store |-> "Parts", source |-> "Missing part"]

RepeatsAnIndex(seq) == \E i, j \in DOMAIN seq : i # j /\ seq[i].idx = seq[j].idx
DistinctIndices(seq) == ~RepeatsAnIndex(seq)

DescSizeAscIdx(q) ==
    \A i, j \in DOMAIN q : i < j =>
        \/ q[i].id.size > q[j].id.size
        \/ q[i].id.size = q[j].id.size /\ q[i].idx <= q[j].idx

AscIdx(q) == \A i, j \in DOMAIN q : i < j => q[i].idx < q[j].idx

\* the vector of tests::test_sort
TestSortParts ==
    << Entry(1, PartId("1", 100)), Entry(2, PartId("2", 50)),
       Entry(3, PartId("3", 100)), Entry(4, PartId("4", 100)) >>

(***************************************************************************)
(* The part ledger.                                                        *)
(***************************************************************************)
\* C3: finish(expected) returns the part list exactly when the number of put
\* calls made on the ledger (since it was last drained) equals expected, and
\* the missing-part error both when fewer and when more puts were made.
FinishCompleteness ==
    FinishReturned =>
        /\ (result.kind = "Ok") <=> (expected = Len(seen))
        /\ (result.kind = "Ok") => (Len(result.ids) = expected)
        /\ (result.kind # "Ok") => (result = MissingPart)

\* C3 witness: three puts, two of them with one index, and finish(2) refused
FinishRefusedSurplus ==
    /\ FinishReturned
    /\ result = MissingPart
    /\ expected < Len(seen)
    /\ RepeatsAnIndex(seen)

FinishOrdersByPartIdx ==
    (FinishSucceeded /\ DistinctIndices(seen)) =>
        \E q \in Arrangements(seen) : AscIdx(q) /\ Ids(q) = result.ids

\* C6: parts issued with distinct indices and sizes that do not increase with
\* the index come back in ascending index order, whatever the order in which
\* the tasks completed their puts.
IssuedNonIncreasing(seq) ==
    /\ DistinctIndices(seq)
    /\ \A i, j \in DOMAIN seq : seq[i].idx < seq[j].idx => seq[i].id.size >= seq[j].id.size

FinishRestoresSubmissionOrder ==
    (FinishSucceeded /\ IssuedNonIncreasing(seen)) =>
        \E q \in Arrangements(seen) : AscIdx(q) /\ Ids(q) = result.ids

\* C6 witness: four parts, the last one shorter, completed out of order
ShortLastPartOutOfOrder ==
    /\ FinishSucceeded
    /\ Len(seen) = 4
    /\ IssuedNonIncreasing(seen)
    /\ \E i \in DOMAIN seen : seen[i].idx = 4 /\ seen[i].id.size = 50
    /\ \A i \in DOMAIN seen : seen[i].idx < 4 => seen[i].id.size = 100
    /\ seen[1].idx = 4 /\ seen[2].idx = 2

\* C7: under any interleaving of the tasks' put calls no entry is lost or
\* overwritten: the ledger holds exactly the entries of the put calls that have
\* returned, one per call, and a finish with that count succeeds.
PutIsSafe ==
    /\ SeqToBag(parts) = SeqToBag(recorded)
    /\ Len(parts) = Len(recorded)
    /\ (FinishReturned /\ expected = Len(seen)) =>
           (result.kind = "Ok" /\ Len(result.ids) = Len(seen))

\* C7 witness: every task has put and finish(NTasks) has succeeded
AllTasksCounted ==
    /\ \A t \in Tasks : pc[t] = "done"
    /\ FinishSucceeded
    /\ Len(result.ids) = NTasks

\* C8 as stated: whatever the order in which the same put calls are applied, a
\* successful finish returns the same list.
FinishIsDeterministic ==
    FinishSucceeded =>
        \A p \in Arrangements(seen) : \A q \in sort(p) : DrainIds(q) = result.ids

\* entries that agree on index and size carry the same PartId
NoTies(seq) ==
    \A i, j \in DOMAIN seq :
        (seq[i].idx = seq[j].idx /\ seq[i].id.size = seq[j].id.size) => seq[i].id = seq[j].id

\* C8 amended: provided no two recorded entries with different PartIds share
\* both index and size, a successful finish returns the same list whatever the
\* order in which the same put calls are applied.
FinishIsDeterministicWithoutTies ==
    (FinishSucceeded /\ NoTies(seen)) =>
        \A p \in Arrangements(seen) : \A q \in sort(p) : DrainIds(q) = result.ids

\* C8 witness: three different entries, one index repeated with another size,
\* put in an order that finish has to change
UntiedPartsReordered ==
    /\ FinishSucceeded
    /\ NoTies(seen)
    /\ Len(seen) = 3
    /\ RepeatsAnIndex(seen)
    /\ Ids(seen) # result.ids

\* C9 as stated: once a finish call has succeeded (here: has returned the parts
\* put so far), no later put calls followed by finish yield another successful
\* part list.
LedgerNotReusable == (FinishSucceeded /\ result.ids # <<>>) => ~consumed

\* C9 amended: a successful finish takes every entry out of the ledger and
\* leaves it empty (so a later finish returns only entries put after it).
FinishEmptiesLedger ==
    [][(fpc = "locked" /\ fpc' = "returned" /\ result'.kind = "Ok")
          => (parts' = <<>> /\ Len(result'.ids) = Len(parts))]_vars

\* C9 witness: a second successful finish of the same ledger, after further puts
LedgerReused == FinishSucceeded /\ consumed /\ result.ids # <<>>

\* C10: the list a successful finish returns holds exactly the recorded PartIds,
\* each as many times as it was put.
FinishReturnsEveryRecordedPart ==
    FinishSucceeded => SeqToBag(result.ids) = SeqToBag(Ids(seen))

\* C10 witness: two puts with one index and none with another, and finish(2)
\* returns both PartIds
RepeatedIndexMasksMissingPart ==
    /\ FinishSucceeded
    /\ Len(seen) = 2
    /\ seen[1].idx = seen[2].idx
    /\ seen[1].id # seen[2].id
    /\ \E k \in 1..Len(seen) : \A m \in DOMAIN seen : seen[m].idx # k
    /\ Range(result.ids) = {seen[1].id, seen[2].id}

(***************************************************************************)
(* bulk_delete_request.                                                    *)
(***************************************************************************)
\* the call went as far as a response that parsed
ResponseParsed == dpc = "done" /\ response # NoResponse

ErrorEntries(content) == {i \in DOMAIN content : content[i].kind = "Error"}

\* the key of an errored entry is the key of the path p
Names(key, p) == PathParse(key).ok /\ PathParse(key).path = p

\* every errored entry names one of the input paths
ErrorsNameInputs ==
    \A i \in ErrorEntries(response) : \E k \in DOMAIN paths : Names(response[i].key, paths[k])

\* a per-object failure carrying the key of p
IsDeleteFailedFor(item, p) ==
    /\ item.kind = "Err"
    /\ item.error.kind = "Generic"
    /\ item.error.source.kind = "DeleteFailed"
    /\ Names(item.error.source.path, p)

\* C1: for N >= 1 distinct paths and a parsed response whose errored entries all
\* name input keys, the outcome vector has length N and outcome[i] is Ok(paths[i])
\* or a failure for the key paths[i], whatever the order of the response's entries
\* and whichever successful keys it omits.
OutcomeFollowsInputOrder ==
    (ResponseParsed /\ ErrorsNameInputs) =>
        /\ outcome.kind = "Ok"
        /\ Len(outcome.results) = Len(paths)
        /\ \A i \in DOMAIN paths :
              \/ outcome.results[i] = OkPath(paths[i])
              \/ IsDeleteFailedFor(outcome.results[i], paths[i])

\* C1 witness: three paths; the response reports the third, then the first, as
\* errored and does not mention the second
ErrorsOutOfOrderSuccessOmitted ==
    /\ ResponseParsed
    /\ Len(paths) = 3
    /\ Len(response) = 2
    /\ ErrorEntries(response) = {1, 2}
    /\ Names(response[1].key, paths[3])
    /\ Names(response[2].key, paths[1])
    /\ outcome.kind = "Ok"
    /\ outcome.results[2] = OkPath(paths[2])
    /\ outcome.results[1].kind = "Err"
    /\ outcome.results[3].kind = "Err"

\* C2: when the response holds exactly one Error entry, for an input key K, the
\* outcome vector holds exactly one failure, at the index of K, with the server's
\* code and message, and every other slot is Ok with its own path.
SingleErrorSubstituted ==
    \A e \in ErrorEntries(response) : \A k \in DOMAIN paths :
        (ResponseParsed /\ ErrorEntries(response) = {e} /\ Names(response[e].key, paths[k])) =>
            /\ outcome.kind = "Ok"
            /\ Len(outcome.results) = Len(paths)
            /\ outcome.results[k].kind = "Err"
            /\ outcome.results[k].error.source.kind = "DeleteFailed"
            /\ outcome.results[k].error.source.code = response[e].code
            /\ outcome.results[k].error.source.message = response[e].message
            /\ \A i \in DOMAIN paths : i # k => outcome.results[i] = OkPath(paths[i])

\* C2 witness: three paths, a response with two Deleted entries around one Error
\* entry for the second path
OneErrorAmongDeleted ==
    /\ ResponseParsed
    /\ Len(paths) = 3
    /\ Len(response) = 3
    /\ ErrorEntries(response) = {2}
    /\ Names(response[2].key, paths[2])
    /\ outcome.kind = "Ok"
    /\ outcome.results[2].kind = "Err"

(***************************************************************************)
(* complete_multipart.                                                     *)
(***************************************************************************)
\* C11: for a part list of length M the i-th part (0-based) is serialized with
\* PartNumber i + 1 and its own content_id, in quotes, as ETag, in the order of
\* the list; the number is the position, whatever index the content_id names.
PartNumbersFollowPosition ==
    (mpc # "idle") =>
        /\ mbody.element = "CompleteMultipartUpload"
        /\ Len(mbody.children) = Len(mparts)
        /\ \A i \in 0..(Len(mparts) - 1) :
              /\ mbody.children[i + 1].element = "Part"
              /\ mbody.children[i + 1].PartNumber = i + 1
              /\ mbody.children[i + 1].ETag = <<"\"", mparts[i + 1].content_id, "\"">>
        /\ Len(FromPartIds(mparts).part) = Len(mparts)
        /\ \A i \in 0..(Len(mparts) - 1) :
              FromPartIds(mparts).part[i + 1] = MultipartPart(mparts[i + 1].content_id, i + 1)

\* C11 witness: the parts whose content_ids read 3, 1, 2 were completed and got
\* the numbers 1, 2, 3
PartsNumberedAgainstTheirNames ==
    /\ mpc = "done"
    /\ moutcome.kind = "Ok"
    /\ [i \in DOMAIN mparts |-> mparts[i].content_id] = <<"3", "1", "2">>
    /\ [i \in DOMAIN mbody.children |-> mbody.children[i].PartNumber] = <<1, 2, 3>>

(***************************************************************************)
(* copy_request.                                                           *)
(***************************************************************************)
CopyReturned == cpc = "done"

NotSupportedError ==
    [kind |-> "Err",
     error |-> [kind |-> "NotSupported", source |-> "S3 does not support copy-if-not-exists"]]

\* C12: copy_request(from, to, overwrite = false) on a configuration without a
\* copy-if-not-exists strategy returns the not-supported error and has called
\* no collaborator (no credential fetched, nothing signed, nothing sent),
\* whatever the credential, transport and retry collaborators would answer.
CopyWithoutStrategyFailsFirst ==
    (CopyReturned /\ ~cargs.overwrite /\ config = NoStrategy) =>
        /\ coutcome = NotSupportedError
        /\ calls = <<>>

\* C15: a send that ended with status 412 makes copy_request return the
\* already-exists error carrying `to` (and the retry error as its source); a
\* send that ended with any other terminal error makes it return the
\* conversion of Error::CopyRequest, which carries `from` and the retry error.
PreconditionFailedIsAlreadyExists ==
    (CopyReturned /\ cresponse.kind = "Err") =>
        /\ coutcome.kind = "Err"
        /\ coutcome.error.source = cresponse.error
        /\ IF cresponse.error.status = 412
           THEN /\ coutcome.error.kind = "AlreadyExists"
                /\ coutcome.error.path = cargs.to
           ELSE /\ coutcome.error.kind = "Request"
                /\ coutcome.error.store = "S3"
                /\ coutcome.error.path = cargs.from

\* C15 witness: a copy between two different paths ended with 412 and the
\* caller got already-exists
CopyOntoExistingDestination ==
    /\ CopyReturned
    /\ cargs.from # cargs.to
    /\ cresponse.kind = "Err"
    /\ cresponse.error.status = 412
    /\ coutcome.kind = "Err"
    /\ coutcome.error.kind = "AlreadyExists"

(***************************************************************************)
(* bulk_delete_request: failures of items and the empty batch.             *)
(***************************************************************************)
\* C13: whenever the request was sent and the response parsed, the call returns
\* the outcome vector, one slot per input path, and every errored entry of the
\* response is a failure in one of its slots, whatever key the entry carries
\* (a key equal to no input path included); the caller gets the vector or an
\* error, nothing else.
ItemFailuresStayInBand ==
    ResponseParsed =>
        /\ outcome.kind \in {"Ok", "Err"}
        /\ outcome.kind = "Ok"
        /\ Len(outcome.results) = Len(paths)
        /\ \A i \in ErrorEntries(response) :
              \E k \in DOMAIN outcome.results :
                  /\ outcome.results[k].kind = "Err"
                  /\ outcome.results[k].error.source.kind = "DeleteFailed"
                  /\ outcome.results[k].error.source.path = response[i].key

\* C14: a call with zero paths has returned the empty outcome vector and no
\* collaborator was called: no credential fetched, nothing digested, signed or
\* sent.
EmptyBatchCallsNothing ==
    (dpc = "done" /\ paths = <<>>) =>
        /\ outcome = [kind |-> "Ok", results |-> <<>>]
        /\ calls = <<>>
        /\ response = NoResponse

\* C14 witness: the call with zero paths has returned
EmptyBatchReturned ==
    /\ dpc = "done"
    /\ paths = <<>>
    /\ outcome.kind = "Ok"

(***************************************************************************)
(* finish that fails, and finish against put.                              *)
(***************************************************************************)
\* C16: a finish that fails leaves the ledger as it was, entry for entry, and
\* a finish after a failed one (with or without puts in between) whose count
\* matches the puts made succeeds and returns the PartId of every put made
\* before and after the failed call.
FailedFinishKeepsLedger ==
    [][/\ (fpc = "locked" /\ fpc' = "returned" /\ result'.kind = "Err") => parts' = parts
       /\ (fpc = "locked" /\ fpc' = "returned" /\ refused /\ expected = Len(recorded)) =>
              /\ result'.kind = "Ok"
              /\ SeqToBag(result'.ids) = SeqToBag(Ids(recorded))
              /\ Len(result'.ids) = Len(recorded)
              /\ parts' = <<>>]_vars

\* C16 witness: a finish failed, and a later finish returned all the parts,
\* two or more
FinishedAfterRefusal ==
    /\ FinishSucceeded
    /\ refused
    /\ Len(result.ids) >= 2
    /\ SeqToBag(result.ids) = SeqToBag(Ids(seen))

\* a task is between taking the guard in put and dropping it
InsidePut(t) == pc[t] \in {"locked", "writing"}

\* C17: put and finish exclude each other: while finish holds the guard no put
\* is in the middle of its push, and the other way round, so finish sees whole
\* entries only; the ledger holds, in the order of their locks, exactly the puts
\* that took the lock after the last successful finish, and a successful finish
\* has returned every put that took the lock before it, each once.
PutAndFinishAreAtomic ==
    /\ (fpc = "locked") => (lock = Finisher /\ \A t \in Tasks : ~InsidePut(t))
    /\ \A t \in Tasks : InsidePut(t) => (lock = t /\ fpc # "locked")
    /\ \A t, u \in Tasks : (InsidePut(t) /\ InsidePut(u)) => t = u
    /\ parts = recorded
    /\ FinishSucceeded =>
           /\ Len(result.ids) = Len(seen)
           /\ SeqToBag(result.ids) = SeqToBag(Ids(seen))

\* C17 witness: finish has succeeded with a part list, a put that took the lock
\* after it has left its entry in the ledger, and another put is in the middle
\* of its push
PutsRacedFinish ==
    /\ FinishSucceeded
    /\ result.ids # <<>>
    /\ Len(parts) = 1
    /\ \E t \in Tasks : pc[t] = "writing"

====
